---- MODULE Spec2Model ----
(***************************************************************************)
(* gcov-server: coverage summary ingestion and dashboard.                  *)
(*                                                                         *)
(* src/src/main.rs is the HTTP server (main, summary_handler,              *)
(* root_handler); src/src/db.rs is the database module (connect_and_setup, *)
(* the summary and reports modules).  Both work on one Postgres database,  *)
(* which is modelled by the tables that exist, the name of the timestamp   *)
(* column of the summary table, and the rows of each table.                *)
(***************************************************************************)
EXTENDS Integers, Sequences, FiniteSets, TLC

\* ------------------------------------------------------------------ bounds
MaxTime == 1
MaxRows == 2
MaxReports == 1
MaxInput == 3

\* ------------------------------------------------------------- input sets
Orgs == {"orgA", "orgB"}
Repos == {"repoX", "repoY"}

\* the (org, repo) pairs summaries are posted for
Pairs == {<<"orgA", "repoX">>, <<"orgA", "repoY">>, <<"orgB", "repoX">>}

\* the (org, repo) pairs reports are recorded for
ReportPairs == {<<"orgA", "repoX">>}

\* db.rs:61-68 / main.rs:46-50
Coverage(c, t, p) == [covered |-> c, total |-> t, percent |-> p]

\* db.rs:72-79 / main.rs:53-62
CoverageSummary(b, f, l) == [branch |-> b, function |-> f, line |-> l]

Payloads ==
    { CoverageSummary(Coverage(1, 2, 50), Coverage(1, 1, 100), Coverage(3, 4, 75)),
      CoverageSummary(Coverage(2, 2, 100), Coverage(1, 1, 100), Coverage(4, 4, 100)) }

\* serde_json::to_value of a CoverageSummary: the three sub-metrics are
\* flattened into one object, each key prefixed by the sub-metric's name.
to_value(p) ==
    [branch_covered   |-> p.branch.covered,
     branch_total     |-> p.branch.total,
     branch_percent   |-> p.branch.percent,
     function_covered |-> p.function.covered,
     function_total   |-> p.function.total,
     function_percent |-> p.function.percent,
     line_covered     |-> p.line.covered,
     line_total       |-> p.line.total,
     line_percent     |-> p.line.percent]

JsonCoverages == { to_value(p) : p \in Payloads }

\* a row of the summary table / a SummaryTableEntry
SummaryTableEntry(t, o, r, c) == [insert_time |-> t, org |-> o, repo |-> r, coverage |-> c]

Entries ==
    { SummaryTableEntry(t, o, r, c) : t \in 0..MaxTime, o \in Orgs, r \in Repos, c \in JsonCoverages }

\* ----------------------------------------------------------------- helpers
Range(s) == { s[i] : i \in DOMAIN s }

SeqsUpTo(S, n) == UNION { [1..k -> S] : k \in 0..n }

\* all orderings of a finite set, as sequences
Orderings(S) ==
    { f \in [1..Cardinality(S) -> S] : \A i, j \in 1..Cardinality(S) : f[i] = f[j] => i = j }

Count(e, s) == Cardinality({ i \in DOMAIN s : s[i] = e })

RECURSIVE Flatten(_)
Flatten(ss) == IF ss = <<>> THEN <<>> ELSE Head(ss) \o Flatten(Tail(ss))

Max(S) == CHOOSE m \in S : \A x \in S : x <= m

\* ------------------------------------------------------------------- state
VARIABLES
    pc,        \* main(): "start", "serving" or "exited"
    tables,    \* [summary: "absent" or the name of its timestamp column, reports: "absent"/"present"]
    summary,   \* rows of the summary table, in insertion order
    reports,   \* rows of the reports table, in insertion order
    now,       \* the server clock read by now()
    inflight,  \* POST summary requests accepted and not yet handled
    last,      \* the operation that completed last and its outcome
    prepared,  \* connect_and_setup has returned Ok on this database
    aggIn,     \* Aggregator: the rows handed to the grouping loop
    aggIdx,    \* Aggregator: number of rows consumed by the loop
    aggOrgs,   \* Aggregator: the HashMap org -> Vec<SummaryTableEntry>
    aggViews,  \* Aggregator: the projected Vec<GiteaOrg>
    aggPc      \* Aggregator: "loop", "project" or "done"

vars == <<pc, tables, summary, reports, now, inflight, last, prepared,
          aggIn, aggIdx, aggOrgs, aggViews, aggPc>>

aggVars == <<aggIn, aggIdx, aggOrgs, aggViews, aggPc>>

\* ------------------------------------------------------ operation outcomes
NoCoverage == to_value(CoverageSummary(Coverage(0, 0, 0), Coverage(0, 0, 0), Coverage(0, 0, 0)))

\* what the operation that completed last was called with and returned:
\* result is "Ok", "Err" or "Panic"; err names the failure; rows is the
\* Vec<SummaryTableEntry> a query produced; status/body are the HTTP
\* response (status 0: no response was written); views is the Vec<GiteaOrg>
\* handed to the template.
Outcome(op, result, err, org, repo, cov, rows, status, body, views) ==
    [op |-> op, result |-> result, err |-> err, org |-> org, repo |-> repo,
     coverage |-> cov, rows |-> rows, status |-> status, body |-> body, views |-> views]

NoOp == Outcome("none", "Ok", "none", "-", "-", NoCoverage, <<>>, 0, <<>>, <<>>)

\* --------------------------------------------------------------- Aggregator
EmptyMap == [o \in {} |-> <<>>]

\* faulty variant: an existing bucket is replaced instead of extended
OrgsInsertOverwrite(orgs, entry) ==
    [o \in DOMAIN orgs \cup {entry.org} |-> IF o = entry.org THEN <<entry>> ELSE orgs[o]]

\* faulty variant: the entry is put at the front of its bucket
OrgsInsertFront(orgs, entry) ==
    IF entry.org \in DOMAIN orgs
    THEN [orgs EXCEPT ![entry.org] = <<entry>> \o @]
    ELSE [o \in DOMAIN orgs \cup {entry.org} |-> IF o = entry.org THEN <<entry>> ELSE orgs[o]]

\* main.rs:141-145, the body of the grouping loop
OrgsInsert(orgs, entry) ==
    IF entry.org \in DOMAIN orgs
    THEN [orgs EXCEPT ![entry.org] = Append(@, entry)]
    ELSE [o \in DOMAIN orgs \cup {entry.org} |-> IF o = entry.org THEN <<entry>> ELSE orgs[o]]

\* main.rs:139-146, the whole loop
RECURSIVE GroupFrom(_, _)
GroupFrom(orgs, resp) ==
    IF resp = <<>> THEN orgs ELSE GroupFrom(OrgsInsert(orgs, Head(resp)), Tail(resp))

Group(resp) == GroupFrom(EmptyMap, resp)

GiteaOrg(k, v) == [name |-> k, repos |-> v]

\* main.rs:148-151: HashMap::into_iter yields the buckets in an unspecified
\* order, so every ordering of the keys is a possible result
Projections(orgs) ==
    { [i \in DOMAIN ks |-> GiteaOrg(ks[i], orgs[ks[i]])] : ks \in Orderings(DOMAIN orgs) }

InitAgg ==
    /\ pc = "start"
    /\ tables = [summary |-> "absent", reports |-> "absent"]
    /\ summary = <<>>
    /\ reports = <<>>
    /\ now = 0
    /\ inflight = {}
    /\ last = NoOp
    /\ prepared = FALSE
    /\ aggIn \in SeqsUpTo(Entries, MaxInput)
    /\ aggIdx = 0
    /\ aggOrgs = EmptyMap
    /\ aggViews = <<>>
    /\ aggPc = "loop"

\* one iteration of `for entry in resp`
AggStep ==
    /\ aggPc = "loop"
    /\ aggIdx < Len(aggIn)
    /\ aggOrgs' = OrgsInsert(aggOrgs, aggIn[aggIdx + 1])
    /\ aggIdx' = aggIdx + 1
    /\ UNCHANGED <<pc, tables, summary, reports, now, inflight, last, prepared, aggIn, aggViews, aggPc>>

\* the loop ends when resp is exhausted
AggLoopEnd ==
    /\ aggPc = "loop"
    /\ aggIdx = Len(aggIn)
    /\ aggPc' = "project"
    /\ UNCHANGED <<pc, tables, summary, reports, now, inflight, last, prepared, aggIn, aggIdx, aggOrgs, aggViews>>

\* orgs.into_iter().map(..).collect()
AggProject ==
    /\ aggPc = "project"
    /\ aggViews' \in Projections(aggOrgs)
    /\ aggPc' = "done"
    /\ UNCHANGED <<pc, tables, summary, reports, now, inflight, last, prepared, aggIn, aggIdx, aggOrgs>>

NextAgg == AggStep \/ AggLoopEnd \/ AggProject

SpecAgg == InitAgg /\ [][NextAgg]_vars

\* all repo entries of a sequence of views, view after view
ViewEntries(views) == Flatten([i \in DOMAIN views |-> views[i].repos])

\* C3: the views' repos lists together hold exactly the input records, each
\* as often as it occurs in the input (same total number, none dropped, none
\* duplicated), and every record sits in the view named after its org.
AggregationComplete ==
    aggPc = "done" =>
        /\ Len(ViewEntries(aggViews)) = Len(aggIn)
        /\ \A e \in Entries : Count(e, ViewEntries(aggViews)) = Count(e, aggIn)
        /\ \A i \in DOMAIN aggViews : \A j \in DOMAIN aggViews[i].repos :
              aggViews[i].repos[j].org = aggViews[i].name

AggregationCompleteWitness ==
    /\ aggPc = "done"
    /\ Len(aggIn) = 3
    /\ aggIn[1] = aggIn[3]
    /\ aggIn[1].org # aggIn[2].org
    /\ Len(aggViews) = 2

\* C10: within each view the repos are the input records of that org in input
\* order, and each org occurring in the input names exactly one view.
AggregationStable ==
    aggPc = "done" =>
        /\ \A i \in DOMAIN aggViews :
              aggViews[i].repos = SelectSeq(aggIn, LAMBDA e : e.org = aggViews[i].name)
        /\ \A o \in { aggIn[k].org : k \in DOMAIN aggIn } :
              Cardinality({ i \in DOMAIN aggViews : aggViews[i].name = o }) = 1

AggregationStableWitness ==
    /\ aggPc = "done"
    /\ Len(aggIn) = 3
    /\ aggIn[1].org = aggIn[3].org
    /\ aggIn[1] # aggIn[3]
    /\ aggIn[2].org # aggIn[1].org
    /\ aggViews[1].name = aggIn[2].org

\* ----------------------------------------------------------------- database
Db(t, s, r) == [tables |-> t, summary |-> s, reports |-> r]

CurrentDb == Db(tables, summary, reports)

\* a stored row of the summary table: (timestamp, org, repo, coverage)
SummaryRow(t, o, r, c) == [time |-> t, org |-> o, repo |-> r, coverage |-> c]

\* a stored row of the reports table
ReportRow(id, t, o, r, b, c) ==
    [report_id |-> id, insert_time |-> t, org |-> o, repo |-> r, branch |-> b, commit |-> c]

Branches == {"main"}
Commits == {"abc123"}

\* faulty variant: CREATE TABLE without IF NOT EXISTS, an existing table is an error
SummarySetupTableStrict(db) ==
    IF db.tables.summary = "absent"
    THEN [err |-> "none", db |-> [db EXCEPT !.tables.summary = "insert_time"]]
    ELSE [err |-> "Database", db |-> db]

\* CREATE TABLE IF NOT EXISTS summary (insert_time timestamptz, org, repo, coverage)
SummarySetupTable(db) ==
    IF db.tables.summary = "absent"
    THEN [err |-> "none", db |-> [db EXCEPT !.tables.summary = "insert_time"]]
    ELSE [err |-> "none", db |-> db]

\* CREATE TABLE IF NOT EXISTS reports (report_id ..., insert_time, org, repo, branch, commit)
ReportsSetupTable(db) ==
    IF db.tables.reports = "absent"
    THEN [err |-> "none", db |-> [db EXCEPT !.tables.reports = "present"]]
    ELSE [err |-> "none", db |-> db]

\* faulty variant: a row of the same (org, repo) is replaced instead of kept
InsertSummaryUpsert(db, t, o, r, c) ==
    IF db.tables.summary = "absent"
    THEN [err |-> "Database", rows_affected |-> 0, db |-> db]
    ELSE [err |-> "none", rows_affected |-> 1,
          db |-> [db EXCEPT !.summary =
                     Append(SelectSeq(@, LAMBDA x : ~(x.org = o /\ x.repo = r)),
                            SummaryRow(t, o, r, c))]]

\* INSERT INTO summary VALUES (now(), $1, $2, $3): the values are positional,
\* so the statement works whatever the timestamp column is called, and fails
\* with a database error when the relation does not exist
InsertSummary(db, t, o, r, c) ==
    IF db.tables.summary = "absent"
    THEN [err |-> "Database", rows_affected |-> 0, db |-> db]
    ELSE [err |-> "none", rows_affected |-> 1,
          db |-> [db EXCEPT !.summary = Append(@, SummaryRow(t, o, r, c))]]

\* INSERT INTO reports(insert_time, org, repo, branch, commit) VALUES (now(), ...)
InsertReport(db, t, o, r, b, c) ==
    IF db.tables.reports = "absent"
    THEN [err |-> "Database", db |-> db]
    ELSE [err |-> "none",
          db |-> [db EXCEPT !.reports = Append(@, ReportRow(Len(@) + 1, t, o, r, b, c))]]

\* a row of the query's result: its columns are org, repo, coverage, inserttime
ResultRow(o, r, c, t) == [org |-> o, repo |-> r, coverage |-> c, inserttime |-> t]

\* faulty variant: every stored row is returned, nothing is grouped
GroupLatestUngrouped(rows) ==
    { ResultRow(x.org, x.repo, x.coverage, x.time) : x \in Range(rows) }

\* GROUP BY org, repo, coverage with MAX(inserttime) per group
GroupLatest(rows) ==
    { ResultRow(x.org, x.repo, x.coverage,
                Max({ y.time : y \in { z \in Range(rows) :
                         z.org = x.org /\ z.repo = x.repo /\ z.coverage = x.coverage } }))
      : x \in Range(rows) }

\* SELECT DISTINCT org, repo, coverage, MAX(inserttime) AS inserttime
\*   FROM summary GROUP BY org, repo, coverage
\* The statement names the column inserttime: it is rejected by the database
\* when the relation is missing or has no column of that name.
SelectLatest(db) ==
    IF db.tables.summary = "absent" THEN [err |-> "Database", rows |-> {}]
    ELSE IF db.tables.summary # "inserttime" THEN [err |-> "Database", rows |-> {}]
    ELSE [err |-> "none", rows |-> GroupLatest(db.summary)]

\* sqlx::FromRow for SummaryTableEntry: the timestamp is read from the result
\* column called `column` (insert_time in db.rs, renamed to inserttime in
\* main.rs); a result row without that column is a ColumnNotFound error.
\* Rows come back in an order the query does not fix.
FromRows(rows, column) ==
    IF \E x \in rows : column \notin DOMAIN x
    THEN [err |-> "ColumnNotFound", vecs |-> {}]
    ELSE [err |-> "none",
          vecs |-> { [i \in DOMAIN s |->
                         SummaryTableEntry(s[i][column], s[i].org, s[i].repo, s[i].coverage)]
                     : s \in Orderings(rows) }]

\* db.rs summary::fetch_table, without the connection failure
FetchTable(db) ==
    LET q == SelectLatest(db) IN
    IF q.err # "none" THEN [err |-> q.err, vecs |-> {}] ELSE FromRows(q.rows, "insert_time")

\* the query of root_handler, without the connection failure
RootQuery(db) ==
    LET q == SelectLatest(db) IN
    IF q.err # "none" THEN [err |-> q.err, vecs |-> {}] ELSE FromRows(q.rows, "inserttime")

\* AppError::into_response
IntoResponse(err) == [status |-> 500, body |-> <<"Something went wrong: ", err>>]

\* ------------------------------------------------------ db.rs, as operations
\* connect_and_setup: connect, then the two CREATE TABLE statements; each of
\* the three awaits can fail (failAt), and `?` returns at the first failure
ConnectAndSetupCall(failAt) ==
    LET db0 == CurrentDb
        s1 == IF failAt = "summary" THEN [err |-> "Io", db |-> db0] ELSE SummarySetupTable(db0)
        s2 == IF failAt = "reports" THEN [err |-> "Io", db |-> s1.db] ELSE ReportsSetupTable(s1.db)
        res == IF failAt = "connect" THEN [err |-> "Io", db |-> db0]
               ELSE IF s1.err # "none" THEN s1
               ELSE s2
    IN /\ tables' = res.db.tables
       /\ summary' = res.db.summary
       /\ reports' = res.db.reports
       /\ prepared' = (prepared \/ res.err = "none")
       /\ last' = Outcome("connect_and_setup", IF res.err = "none" THEN "Ok" ELSE "Err", res.err,
                          "-", "-", NoCoverage, <<>>, 0, <<>>, <<>>)
       /\ UNCHANGED <<pc, now, inflight, aggVars>>

ConnectAndSetup == \E failAt \in {"none", "connect", "summary", "reports"} : ConnectAndSetupCall(failAt)

\* summary::insert_into_table
InsertIntoTableCall(o, r, p, io) ==
    LET res == IF io THEN [err |-> "Io", rows_affected |-> 0, db |-> CurrentDb]
               ELSE InsertSummary(CurrentDb, now, o, r, to_value(p))
    IN /\ Len(summary) < MaxRows
       /\ tables' = res.db.tables
       /\ summary' = res.db.summary
       /\ reports' = res.db.reports
       /\ last' = Outcome("insert_into_table", IF res.err = "none" THEN "Ok" ELSE "Err", res.err,
                          o, r, to_value(p), <<>>, 0, <<>>, <<>>)
       /\ UNCHANGED <<pc, now, inflight, prepared, aggVars>>

InsertIntoTable ==
    \E pr \in Pairs, p \in Payloads, io \in BOOLEAN : InsertIntoTableCall(pr[1], pr[2], p, io)

\* summary::fetch_table
FetchTableCall(io) ==
    LET res == IF io THEN [err |-> "Io", vecs |-> {}] ELSE FetchTable(CurrentDb)
    IN /\ IF res.err # "none"
          THEN last' = Outcome("fetch_table", "Err", res.err, "-", "-", NoCoverage, <<>>, 0, <<>>, <<>>)
          ELSE \E resp \in res.vecs :
                  last' = Outcome("fetch_table", "Ok", "none", "-", "-", NoCoverage, resp, 0, <<>>, <<>>)
       /\ UNCHANGED <<pc, tables, summary, reports, now, inflight, prepared, aggVars>>

FetchTableOp == \E io \in BOOLEAN : FetchTableCall(io)

\* reports::insert_into_table
ReportsInsertIntoTableCall(o, r, b, c, io) ==
    LET res == IF io THEN [err |-> "Io", db |-> CurrentDb]
               ELSE InsertReport(CurrentDb, now, o, r, b, c)
    IN /\ Len(reports) < MaxReports
       /\ tables' = res.db.tables
       /\ summary' = res.db.summary
       /\ reports' = res.db.reports
       /\ last' = Outcome("reports_insert_into_table", IF res.err = "none" THEN "Ok" ELSE "Err",
                          res.err, "-", "-", NoCoverage, <<>>, 0, <<>>, <<>>)
       /\ UNCHANGED <<pc, now, inflight, prepared, aggVars>>

ReportsInsertIntoTable ==
    \E pr \in ReportPairs, b \in Branches, c \in Commits, io \in BOOLEAN :
        ReportsInsertIntoTableCall(pr[1], pr[2], b, c, io)

\* the server clock advances
Tick ==
    /\ now < MaxTime
    /\ now' = now + 1
    /\ UNCHANGED <<pc, tables, summary, reports, inflight, last, prepared, aggVars>>

\* ---------------------------------------------------- main.rs, the server
\* main(): the log appender, the connection string, PgPool::connect and the
\* listener are each unwrapped (expect/unwrap), so the first one that fails
\* (failAt) panics and the process ends; otherwise axum::serve starts.
\* No table is created on the way.
MainCall(failAt) ==
    /\ pc = "start"
    /\ pc' = IF failAt = "none" THEN "serving" ELSE "exited"
    /\ last' = Outcome("main", IF failAt = "none" THEN "Ok" ELSE "Panic", failAt,
                       "-", "-", NoCoverage, <<>>, 0, <<>>, <<>>)
    /\ UNCHANGED <<tables, summary, reports, now, inflight, prepared, aggVars>>

Main == \E failAt \in {"none", "log", "env", "connect", "bind"} : MainCall(failAt)

\* a POST /:org/:repo/summary request has been accepted and its extractors
\* (Path, Json) have produced the handler's arguments; the handler task runs
\* concurrently with those of the other requests
Request(o, r, p) == [org |-> o, repo |-> r, payload |-> p]

ArriveCall(o, r, p) ==
    /\ pc = "serving"
    /\ Cardinality(inflight) + Len(summary) < MaxRows
    /\ Request(o, r, p) \notin inflight
    /\ inflight' = inflight \cup {Request(o, r, p)}
    /\ UNCHANGED <<pc, tables, summary, reports, now, last, prepared, aggVars>>

Arrive == \E pr \in Pairs, p \in Payloads : ArriveCall(pr[1], pr[2], p)

\* summary_handler: to_value, the INSERT, then the rows_affected check
SummaryHandlerCall(req, io) ==
    LET json_coverage == to_value(req.payload)
        res == IF io THEN [err |-> "Io", rows_affected |-> 0, db |-> CurrentDb]
               ELSE InsertSummary(CurrentDb, now, req.org, req.repo, json_coverage)
        err == IF res.err # "none" THEN res.err
               ELSE IF res.rows_affected = 1 THEN "none" ELSE "Unable to insert to DB"
        resp == IF err = "none" THEN [status |-> 200, body |-> <<>>] ELSE IntoResponse(err)
    IN /\ pc = "serving"
       /\ req \in inflight
       /\ Len(summary) < MaxRows
       /\ inflight' = inflight \ {req}
       /\ tables' = res.db.tables
       /\ summary' = res.db.summary
       /\ reports' = res.db.reports
       /\ last' = Outcome("summary_handler", IF err = "none" THEN "Ok" ELSE "Err", err,
                          "-", "-", NoCoverage, <<>>, resp.status, resp.body, <<>>)
       /\ UNCHANGED <<pc, now, prepared, aggVars>>

SummaryHandler == \E req \in inflight, io \in BOOLEAN : SummaryHandlerCall(req, io)

\* root_handler: the query (`?`), the grouping loop, the projection,
\* Tera::new(..).unwrap(), tera.render(..)?.  A failed unwrap panics: the
\* handler's task is torn down and no response is written.
RootHandlerCall(io, teraOk, renderOk) ==
    LET q == IF io THEN [err |-> "Io", vecs |-> {}] ELSE RootQuery(CurrentDb) IN
    /\ pc = "serving"
    /\ IF q.err # "none"
       THEN last' = Outcome("root_handler", "Err", q.err, "-", "-", NoCoverage, <<>>,
                            IntoResponse(q.err).status, IntoResponse(q.err).body, <<>>)
       ELSE \E resp \in q.vecs : \E orgs \in Projections(Group(resp)) :
               last' = IF ~teraOk
                       THEN Outcome("root_handler", "Panic", "TeraNew", "-", "-", NoCoverage,
                                    resp, 0, <<>>, <<>>)
                       ELSE IF ~renderOk
                       THEN Outcome("root_handler", "Err", "TeraRender", "-", "-", NoCoverage,
                                    resp, IntoResponse("TeraRender").status,
                                    IntoResponse("TeraRender").body, <<>>)
                       ELSE Outcome("root_handler", "Ok", "none", "-", "-", NoCoverage,
                                    resp, 200, <<>>, orgs)
    /\ UNCHANGED <<pc, tables, summary, reports, now, inflight, prepared, aggVars>>

RootHandler == \E io \in BOOLEAN, teraOk \in BOOLEAN, renderOk \in BOOLEAN : RootHandlerCall(io, teraOk, renderOk)

\* ------------------------------------------------------------ specification
\* The database outlives the process.  When main starts, the database is
\* empty, or holds the tables db.rs creates (timestamp column insert_time),
\* or holds a summary table whose timestamp column is called inserttime, the
\* name the queries use.
StartTables ==
    { [summary |-> "absent", reports |-> "absent"],
      [summary |-> "insert_time", reports |-> "present"],
      [summary |-> "inserttime", reports |-> "present"] }

Init ==
    /\ pc = "start"
    /\ tables \in StartTables
    /\ summary = <<>>
    /\ reports = <<>>
    /\ now = 0
    /\ inflight = {}
    /\ last = NoOp
    /\ prepared = FALSE
    /\ aggIn = <<>>
    /\ aggIdx = 0
    /\ aggOrgs = EmptyMap
    /\ aggViews = <<>>
    /\ aggPc = "done"

\* the server of main.rs
Next ==
    \/ Main
    \/ Arrive
    \/ SummaryHandler
    \/ RootHandler
    \/ Tick

Spec == Init /\ [][Next]_vars

\* The db module on its own, pointed at an empty database: every table it
\* works on is one its own setup_table created.
InitDb ==
    /\ pc = "start"
    /\ tables = [summary |-> "absent", reports |-> "absent"]
    /\ summary = <<>>
    /\ reports = <<>>
    /\ now = 0
    /\ inflight = {}
    /\ last = NoOp
    /\ prepared = FALSE
    /\ aggIn = <<>>
    /\ aggIdx = 0
    /\ aggOrgs = EmptyMap
    /\ aggViews = <<>>
    /\ aggPc = "done"

NextDb ==
    \/ ConnectAndSetup
    \/ InsertIntoTable
    \/ FetchTableOp
    \/ ReportsInsertIntoTable
    \/ Tick

SpecDb == InitDb /\ [][NextDb]_vars

\* ------------------------------------------------------------------ claims
SameTriple(x, y) == x.org = y.org /\ x.repo = y.repo /\ x.coverage = y.coverage

SamePair(x, y) == x.org = y.org /\ x.repo = y.repo

\* the stored records of the triple of x
GroupOf(x) == { y \in Range(summary) : SameTriple(x, y) }

\* the operation that completed last was a query that the database answered
QueryAnswered == last.err \notin {"Io", "Database", "ColumnNotFound"}

\* C1: on any stored history, fetch_table returns exactly one row for each
\* distinct (org, repo, coverage) triple of the store and no other row, and
\* each row's insert time is the greatest insert time of its triple.
FetchLatestPerRepo ==
    (last.op = "fetch_table" /\ last.err # "Io" /\ summary # <<>>) =>
        /\ last.result = "Ok"
        /\ \A x \in Range(summary) :
              /\ Cardinality({ i \in DOMAIN last.rows : SameTriple(last.rows[i], x) }) = 1
              /\ \A i \in DOMAIN last.rows :
                    SameTriple(last.rows[i], x) =>
                        last.rows[i].insert_time = Max({ y.time : y \in GroupOf(x) })
        /\ \A i \in DOMAIN last.rows : \E x \in Range(summary) : SameTriple(last.rows[i], x)

\* C5: on a store prepared by connect_and_setup, a successful
\* insert_into_table followed by fetch_table makes fetch_table succeed with a
\* row whose org, repo and coverage are the inserted ones.
InsertThenFetch ==
    [][ ( /\ prepared
          /\ last.op = "insert_into_table" /\ last.result = "Ok"
          /\ last'.op = "fetch_table" /\ last'.err # "Io" )
        => ( /\ last'.result = "Ok"
             /\ \E i \in DOMAIN last'.rows : SameTriple(last'.rows[i], last) ) ]_vars

\* the stored records are for pairwise distinct (org, repo) pairs
DistinctPairsStored ==
    \A i, j \in DOMAIN summary : i # j => ~SamePair(summary[i], summary[j])

\* C6: summary inserts for pairwise distinct (org, repo) pairs that are in
\* flight together all succeed, and once all have completed the fetch-latest
\* query returns a row for each pair with the coverage inserted for it.
ConcurrentInsertSafety ==
    /\ (last.op = "summary_handler" /\ last.err # "Io" /\ tables.summary # "absent")
          => last.result = "Ok"
    /\ ( /\ last.op = "root_handler" /\ last.err # "Io"
         /\ inflight = {} /\ Len(summary) >= 2 /\ DistinctPairsStored )
          => /\ QueryAnswered
             /\ \A i \in DOMAIN summary :
                   \E j \in DOMAIN last.rows : SameTriple(last.rows[j], summary[i])

\* C7: every failure while a request is handled becomes the response
\* 500 "Something went wrong: {detail}"; the handler is not aborted and the
\* server keeps serving.
RequestErrorsBecome500 ==
    (last.op \in {"root_handler", "summary_handler"} /\ last.err # "none") =>
        /\ last.result = "Err"
        /\ last.status = 500
        /\ last.body = <<"Something went wrong: ", last.err>>
        /\ pc = "serving"

\* C8: the server serves only after the connection and the table setup have
\* succeeded (so the summary and reports tables exist while it serves), and a
\* failed startup step ends the process.
StartupHardGate ==
    /\ pc = "serving" => (tables.summary # "absent" /\ tables.reports # "absent")
    /\ (last.op = "main" /\ last.result = "Panic") => pc = "exited"

\* the entries of the dashboard the last request rendered
Shown == ViewEntries(last.views)

\* the record of the pair of x that was inserted last
LatestOfPair(x) ==
    summary[Max({ i \in DOMAIN summary : SamePair(summary[i], x) })]

\* C2 as stated: a rendered dashboard has exactly one entry for every stored
\* (org, repo) pair, carrying the coverage of the pair's latest record.
DashboardLatestPerRepo ==
    (last.op = "root_handler" /\ last.result = "Ok") =>
        \A x \in Range(summary) :
            /\ Cardinality({ i \in DOMAIN Shown : SamePair(Shown[i], x) }) = 1
            /\ \A i \in DOMAIN Shown :
                  SamePair(Shown[i], x) => Shown[i].coverage = LatestOfPair(x).coverage

\* C2 as amended: a rendered dashboard has, for every stored (org, repo)
\* pair, exactly one entry per distinct coverage stored for the pair, with the
\* latest insert time of that coverage, under the view of the pair's org; the
\* coverage of the pair's latest record is among them; nothing else is shown.
DashboardDistinctSnapshots ==
    (last.op = "root_handler" /\ last.result = "Ok") =>
        /\ \A x \in Range(summary) :
              /\ Cardinality({ i \in DOMAIN Shown : SameTriple(Shown[i], x) }) = 1
              /\ \A i \in DOMAIN Shown :
                    SameTriple(Shown[i], x) =>
                        Shown[i].insert_time = Max({ y.time : y \in GroupOf(x) })
              /\ \E i \in DOMAIN Shown :
                    SamePair(Shown[i], x) /\ Shown[i].coverage = LatestOfPair(x).coverage
        /\ \A i \in DOMAIN Shown : \E x \in Range(summary) : SameTriple(Shown[i], x)
        /\ \A v \in DOMAIN last.views : \A j \in DOMAIN last.views[v].repos :
              last.views[v].repos[j].org = last.views[v].name
        /\ \A v, w \in DOMAIN last.views : last.views[v].name = last.views[w].name => v = w

DashboardDistinctSnapshotsWitness ==
    /\ last.op = "root_handler" /\ last.result = "Ok"
    /\ Len(summary) = 2
    /\ SamePair(summary[1], summary[2])
    /\ summary[1].coverage # summary[2].coverage
    /\ Len(Shown) = 2

\* C4: the summary table only grows: a step leaves it as it is or appends
\* one record (the inserted org, repo and coverage, stamped with the current
\* server time) behind the untouched earlier records; a successful insert
\* always appends exactly one; setup and fetch never change it.
AppendOnly ==
    [][ /\ \/ summary' = summary
           \/ /\ last'.op = "insert_into_table" /\ last'.result = "Ok"
              /\ summary' = Append(summary, SummaryRow(now, last'.org, last'.repo, last'.coverage))
        /\ (InsertIntoTable /\ last'.result = "Ok") => Len(summary') = Len(summary) + 1
        /\ (ConnectAndSetup \/ FetchTableOp) => summary' = summary ]_vars

AppendOnlyWitness ==
    /\ Len(summary) = 2
    /\ SamePair(summary[1], summary[2])
    /\ summary[1].time < summary[2].time
    /\ last.op = "connect_and_setup" /\ last.result = "Ok"

\* C9: setup returns no error unless the database cannot be reached, leaves
\* every stored row and every existing table as it was, leaves both tables in
\* place, and a setup right after a successful setup changes nothing.
SetupIdempotent ==
    [][ ConnectAndSetup =>
          /\ last'.err \in {"none", "Io"}
          /\ summary' = summary
          /\ reports' = reports
          /\ tables.summary # "absent" => tables'.summary = tables.summary
          /\ tables.reports # "absent" => tables'.reports = tables.reports
          /\ last'.result = "Ok" => (tables'.summary # "absent" /\ tables'.reports # "absent")
          /\ (last.op = "connect_and_setup" /\ last.result = "Ok" /\ last'.result = "Ok")
                => tables' = tables ]_vars

SetupIdempotentWitness ==
    /\ last.op = "connect_and_setup" /\ last.result = "Ok"
    /\ prepared
    /\ Len(summary) >= 1
    /\ Len(reports) >= 1
====
